---------------------------- MODULE Spec2Model ----------------------------
(***************************************************************************)
(* A model of src/src/writer.js: the protobuf wire-format Writer (typed    *)
(* arrays) and its node-Buffer variant BufferWriter.                       *)
(*                                                                         *)
(* Memory is modelled explicitly.  Every writer owns a byte arena `mem`;   *)
(* an allocation appends fresh bytes to it, and a buffer (Uint8Array or    *)
(* Buffer object) is a view <<off, len>> into the arena, so that a view    *)
(* made by subarray / Buffer#slice shares storage with its parent and a    *)
(* copy made by Uint8Array#slice does not.  null is the empty tuple.       *)
(*                                                                         *)
(* Numbers are 32-bit words (functions 0..31 -> {0,1}, bit 0 least         *)
(* significant), so that the shifts, the xor and the `>>> 0` of the source *)
(* keep their width.                                                       *)
(***************************************************************************)
EXTENDS Integers, Sequences, FiniteSets, TLC

(***************************************************************************)
(* 32-bit words and the JavaScript operators the source applies to them.   *)
(***************************************************************************)
Bit == 0..31

\* the bits of an integer 0 <= n < 2^31
BitsOf(n) == [i \in Bit |-> IF i = 31 THEN 0 ELSE (n \div (2 ^ i)) % 2]

RECURSIVE SumBits(_, _, _)
SumBits(w, lo, hi) ==
    IF lo > hi THEN 0 ELSE w[lo] + 2 * SumBits(w, lo + 1, hi)

\* the integer held in bits lo..hi of w (hi - lo < 31)
Field(w, lo, hi) == SumBits(w, lo, hi)

Not32(w) == [i \in Bit |-> 1 - w[i]]
Inc32(w) == [i \in Bit |-> IF \A j \in 0..(i - 1) : w[j] = 1 THEN 1 - w[i] ELSE w[i]]
Neg32(w) == Inc32(Not32(w))

\* a << k, a >> k (sign-propagating), a >>> k, a ^ b, a | b, a & b
Shl(w, k) == [i \in Bit |-> IF i >= k THEN w[i - k] ELSE 0]
Sar(w, k) == [i \in Bit |-> IF i + k <= 31 THEN w[i + k] ELSE w[31]]
Shr(w, k) == [i \in Bit |-> IF i + k <= 31 THEN w[i + k] ELSE 0]
Xor(a, b) == [i \in Bit |-> (a[i] + b[i]) % 2]
Or(a, b) == [i \in Bit |-> IF a[i] + b[i] > 0 THEN 1 ELSE 0]
And(a, b) == [i \in Bit |-> a[i] * b[i]]

\* An integer-valued JavaScript number of magnitude below 2^32: sign and magnitude.
Num(i) ==
    IF i >= 0 THEN [neg |-> FALSE, mag |-> BitsOf(i)]
    ELSE [neg |-> TRUE, mag |-> Inc32(BitsOf(-(i + 1)))]

\* ToUint32 / ToInt32 of a number: its value modulo 2^32 as a bit pattern.
ToUint32(x) == IF x.neg THEN Neg32(x.mag) ELSE x.mag

\* the number a signed 32-bit result (of <<, >>, ^, |, &) stands for
Int32Num(w) ==
    IF w[31] = 1 THEN [neg |-> TRUE, mag |-> Neg32(w)] ELSE [neg |-> FALSE, mag |-> w]

\* the number an unsigned 32-bit result (of >>>) stands for
Uint32Num(w) == [neg |-> FALSE, mag |-> w]

\* u < k and u > k for an unsigned word u and an integer 0 <= k < 2^31
WordLt(u, k) == u[31] = 0 /\ Field(u, 0, 30) < k
WordGt(u, k) == u[31] = 1 \/ Field(u, 0, 30) > k

\* the element a typed array or Buffer stores for a 32-bit value: its low 8 bits
ToUint8(w) == Field(w, 0, 7)


(***************************************************************************)
(* Memory: buffers are views <<off, len>> into a writer's arena.           *)
(***************************************************************************)
Null == <<>>

Max(a, b) == IF a >= b THEN a ELSE b

Fill(n, b) == [i \in 1..n |-> b]

\* the bytes a buffer holds
Contents(mem, v) == SubSeq(mem, v[1] + 1, v[1] + v[2])

\* a new array object holding `data`, as a caller builds one to pass it in
Put(mem, data) == [mem |-> mem \o data, view |-> <<Len(mem), Len(data)>>]

\* var emptyBuffer = new Uint8Array(0): one shared object without storage
emptyBuffer == <<0, 0>>

\* Writer.alloc: new Uint8Array(size) is zero-filled
alloc(c, mem, size) ==
    IF size # 0 THEN [mem |-> mem \o Fill(size, 0), view |-> <<Len(mem), size>>]
    ELSE [mem |-> mem, view |-> emptyBuffer]

\* BufferWriter.alloc: Buffer.alloc(size) is zero-filled, new Buffer(size) holds
\* whatever the memory held (c.fill)
alloc_buffer(c, mem, size) ==
    [mem |-> mem \o Fill(size, c.fill), view |-> <<Len(mem), size>>]

\* writer.constructor.alloc / this.constructor.alloc
constructor_alloc(c, mem, size) ==
    IF c.ctor = "BufferWriter" THEN alloc_buffer(c, mem, size) ELSE alloc(c, mem, size)

\* writer.buf.slice || writer.buf.subarray: Uint8Array#slice copies where the
\* platform has it, Uint8Array#subarray and Buffer#slice are views
slice_method(c) ==
    IF c.ctor = "BufferWriter" THEN "Buffer.slice"
    ELSE IF c.typedSlice THEN "slice" ELSE "subarray"

\* method.call(v, start, end) for 0 <= start <= end <= v.length
slice_call(method, mem, v, start, end) ==
    IF method = "slice"
    THEN [mem |-> mem \o SubSeq(mem, v[1] + start + 1, v[1] + end),
          view |-> <<Len(mem), end - start>>]
    ELSE [mem |-> mem, view |-> <<v[1] + start, end - start>>]

\* dst.set(src, at) / src.copy(dst, at): the bytes of src as they are before the call
copy_into(mem, dst, at, src) ==
    [i \in 1..Len(mem) |->
        IF i > dst[1] + at /\ i <= dst[1] + at + src[2] /\ i <= dst[1] + dst[2]
        THEN mem[src[1] + (i - dst[1] - at)]
        ELSE mem[i]]

(***************************************************************************)
(* The Writer object: buf, pos, len, bufs, _stack (stack), _slice (slice), *)
(* with its arena, whether the call in progress threw, and what the last   *)
(* finish returned.                                                        *)
(***************************************************************************)
Writer ==
    [buf |-> Null, pos |-> 0, len |-> 0, bufs |-> <<>>, stack |-> <<>>,
     slice |-> "null", mem |-> <<>>, threw |-> FALSE, ret |-> Null]

\* entry of a call on the writer
Call(w) == [w EXCEPT !.threw = FALSE, !.ret = Null]

\* this.buf[this.pos++] = b: a store past the end of a typed array or Buffer
\* is dropped, a store into null throws a TypeError after pos++
store(w, b) ==
    IF w.threw THEN w
    ELSE IF w.buf = Null THEN [w EXCEPT !.pos = @ + 1, !.threw = TRUE]
    ELSE [w EXCEPT !.mem = IF w.pos < w.buf[2]
                           THEN [@ EXCEPT ![w.buf[1] + w.pos + 1] = b]
                           ELSE @,
                   !.pos = @ + 1]

\* a growth that always allocates Writer.BUFFER_SIZE bytes
expand_fixed(c, w, writeLength) ==
    LET pos == w.pos
        buf == w.buf
        s == slice_call(w.slice, w.mem, buf, 0, pos)
        mem1 == IF pos # 0 THEN s.mem ELSE w.mem
        bufs1 == IF pos # 0 THEN Append(w.bufs, s.view) ELSE w.bufs
        size == c.BUFFER_SIZE
        a == constructor_alloc(c, mem1, size)
    IN [w EXCEPT !.bufs = bufs1, !.mem = a.mem, !.buf = a.view, !.len = size,
                 !.pos = 0, !.slice = slice_method(c)]

expand(c, w, writeLength) ==
    LET pos == w.pos
        buf == w.buf
        s == slice_call(w.slice, w.mem, buf, 0, pos)
        mem1 == IF pos # 0 THEN s.mem ELSE w.mem
        bufs1 == IF pos # 0 THEN Append(w.bufs, s.view) ELSE w.bufs
        size == Max(writeLength, c.BUFFER_SIZE)
        a == constructor_alloc(c, mem1, size)
    IN [w EXCEPT !.bufs = bufs1, !.mem = a.mem, !.buf = a.view, !.len = size,
                 !.pos = 0, !.slice = slice_method(c)]

\* a capacity check that lets a write run one byte past the buffer
reserve_lax(c, w, n) == IF w.pos + n > w.len + 1 THEN expand(c, w, n) ELSE w

\* if (this.pos + n > this.len) expand(this, n)
reserve(c, w, n) == IF w.pos + n > w.len THEN expand(c, w, n) ELSE w

write_tag(c, w, id, wireType) ==
    store(reserve(c, Call(w), 1),
          ToUint8(Or(Shl(ToUint32(id), 3), And(ToUint32(wireType), BitsOf(7)))))

\* a length table whose second threshold is 32768 instead of 16384
uint32_len_wide(value) ==
    IF WordLt(value, 128) THEN 1
    ELSE IF WordLt(value, 32768) THEN 2
    ELSE IF WordLt(value, 2097152) THEN 3
    ELSE IF WordLt(value, 268435456) THEN 4
    ELSE 5

\* the byte count write_uint32 computes for value >>> 0
uint32_len(value) ==
    IF WordLt(value, 128) THEN 1
    ELSE IF WordLt(value, 16384) THEN 2
    ELSE IF WordLt(value, 2097152) THEN 3
    ELSE IF WordLt(value, 268435456) THEN 4
    ELSE 5

RECURSIVE uint32_loop(_, _)
uint32_loop(w, value) ==
    IF WordGt(value, 127)
    THEN uint32_loop(store(w, ToUint8(Or(value, BitsOf(128)))), Shr(value, 7))
    ELSE store(w, ToUint8(value))

uint32_body(c, w, number) ==
    LET value == ToUint32(number)
    IN uint32_loop(reserve(c, w, uint32_len(value)), value)

write_uint32(c, w, number) == uint32_body(c, Call(w), number)

\* value << 1 ^ value >>> 31: the sign bit shifted in once instead of spread
zigzag_logical(number) ==
    Int32Num(Xor(Shl(ToUint32(number), 1), Shr(ToUint32(number), 31)))

\* value << 1 ^ value >> 31
zigzag(number) ==
    Int32Num(Xor(Shl(ToUint32(number), 1), Sar(ToUint32(number), 31)))

write_sint32(c, w, number) == write_uint32(c, w, zigzag(number))

write_bool(c, w, value) ==
    store(reserve(c, Call(w), 1), IF value THEN 1 ELSE 0)

write_fixed32(c, w, number) ==
    LET w1 == reserve(c, Call(w), 4)
        value == ToUint32(number)
    IN store(store(store(store(w1, ToUint8(value)), ToUint8(Shr(value, 8))),
                   ToUint8(Shr(value, 16))), ToUint8(Shr(value, 24)))

\* an sfixed32 that stores the value's two's complement as it is
write_sfixed32_plain(c, w, number) == write_fixed32(c, w, number)

write_sfixed32(c, w, number) == write_fixed32(c, w, zigzag(number))

\* value.length of null throws a TypeError before anything is written
write_bytes(c, w, value) ==
    IF value = Null THEN [Call(w) EXCEPT !.threw = TRUE]
    ELSE LET len == value[2]
             w1 == uint32_body(c, Call(w), Num(len))
             w2 == reserve(c, w1, len)
         IN IF len # 0
            THEN [w2 EXCEPT !.mem = copy_into(@, w2.buf, w2.pos, value),
                            !.pos = @ + len]
            ELSE w1

write_bytes_buffer(c, w, value) ==
    IF value = Null THEN [Call(w) EXCEPT !.threw = TRUE]
    ELSE LET len == value[2]
             w1 == uint32_body(c, Call(w), Num(len))
             w2 == reserve(c, w1, len)
         IN [w2 EXCEPT !.mem = copy_into(@, w2.buf, w2.pos, value),
                       !.pos = @ + len]

(***************************************************************************)
(* fork / reset / finish                                                   *)
(***************************************************************************)
\* a fork whose inner buffer starts at index 0 of the old one
fork_overlap(c, w0) ==
    LET w == Call(w0)
        head == slice_call(w.slice, w.mem, w.buf, 0, w.pos)
        rest == slice_call(w.slice, head.mem, w.buf, 0, w.buf[2])
    IN IF w.buf # Null /\ w.pos # 0
       THEN IF w.pos < w.len
            THEN [w EXCEPT !.stack = Append(@, Append(w.bufs, head.view)),
                           !.bufs = <<>>, !.mem = rest.mem, !.buf = rest.view,
                           !.len = rest.view[2], !.pos = 0]
            ELSE [w EXCEPT !.stack = Append(@, Append(w.bufs, w.buf)),
                           !.bufs = <<>>, !.buf = Null, !.len = 0, !.pos = 0]
       ELSE w

\* a fork that pushes the chunk list without the written prefix
fork_drops_prefix(c, w0) ==
    LET w == Call(w0)
        rest == slice_call(w.slice, w.mem, w.buf, w.pos, w.buf[2])
    IN IF w.buf # Null /\ w.pos # 0
       THEN IF w.pos < w.len
            THEN [w EXCEPT !.stack = Append(@, w.bufs),
                           !.bufs = <<>>, !.mem = rest.mem, !.buf = rest.view,
                           !.len = rest.view[2], !.pos = 0]
            ELSE [w EXCEPT !.stack = Append(@, w.bufs),
                           !.bufs = <<>>, !.buf = Null, !.len = 0, !.pos = 0]
       ELSE w

fork(c, w0) ==
    LET w == Call(w0)
        head == slice_call(w.slice, w.mem, w.buf, 0, w.pos)
        rest == slice_call(w.slice, head.mem, w.buf, w.pos, w.buf[2])
    IN IF w.buf # Null /\ w.pos # 0
       THEN IF w.pos < w.len
            THEN [w EXCEPT !.stack = Append(@, Append(w.bufs, head.view)),
                           !.bufs = <<>>, !.mem = rest.mem, !.buf = rest.view,
                           !.len = rest.view[2], !.pos = 0]
            ELSE [w EXCEPT !.stack = Append(@, Append(w.bufs, w.buf)),
                           !.bufs = <<>>, !.buf = Null, !.len = 0, !.pos = 0]
       ELSE w

\* a reset that restores the chunk list and keeps buf, pos and len
reset_body_keeps(w, clearForkedStates) ==
    IF Len(w.stack) # 0
    THEN IF clearForkedStates
         THEN [w EXCEPT !.bufs = <<>>]
         ELSE [w EXCEPT !.bufs = w.stack[Len(w.stack)],
                        !.stack = SubSeq(@, 1, Len(w.stack) - 1)]
    ELSE [w EXCEPT !.bufs = <<>>]

reset_body(w, clearForkedStates) ==
    IF Len(w.stack) # 0
    THEN IF clearForkedStates
         THEN [w EXCEPT !.bufs = <<>>, !.buf = Null, !.pos = 0, !.len = 0]
         ELSE [w EXCEPT !.bufs = w.stack[Len(w.stack)],
                        !.stack = SubSeq(@, 1, Len(w.stack) - 1),
                        !.buf = Null, !.pos = 0, !.len = 0]
    ELSE [w EXCEPT !.bufs = <<>>, !.buf = Null, !.pos = 0, !.len = 0]

reset(c, w, clearForkedStates) == reset_body(Call(w), clearForkedStates)

\* len += bufs[i++].length over the chunks
RECURSIVE chunks_length(_)
chunks_length(bufs) ==
    IF bufs = <<>> THEN 0 ELSE bufs[1][2] + chunks_length(Tail(bufs))

\* concat.set(sub = bufs[i++], pos); pos += sub.length over the chunks
RECURSIVE concat_set(_, _, _, _)
concat_set(mem, concat, bufs, pos) ==
    IF bufs = <<>> THEN mem
    ELSE concat_set(copy_into(mem, concat, pos, bufs[1]), concat, Tail(bufs),
                    pos + bufs[1][2])

\* WriterPrototype.finish.  concat.set(null, pos) throws a TypeError.
finish(c, w0, clearForkedStates) ==
    LET bufs == w0.bufs
        buf0 == w0.buf
        pos == w0.pos
        len == w0.len
        w == reset_body(Call(w0), clearForkedStates)
        cut == buf0 # Null /\ pos < len /\ pos # 0
        s == slice_call(w.slice, w.mem, buf0, 0, pos)
        mem1 == IF cut THEN s.mem ELSE w.mem
        buf == IF buf0 # Null /\ pos < len
               THEN IF pos # 0 THEN s.view ELSE emptyBuffer
               ELSE buf0
        total == pos + chunks_length(bufs)
        a == constructor_alloc(c, mem1, total)
        mem2 == concat_set(a.mem, a.view, bufs, 0)
    IN IF Len(bufs) = 0 THEN [w EXCEPT !.mem = mem1, !.ret = buf]
       ELSE IF buf = Null THEN [w EXCEPT !.mem = mem2, !.threw = TRUE]
       ELSE [w EXCEPT !.mem = copy_into(mem2, a.view, chunks_length(bufs), buf),
                      !.ret = a.view]

\* util.Buffer.concat(list): a new Buffer holding the chunks in order
Buffer_concat(c, mem, list) ==
    LET a == alloc_buffer(c, mem, chunks_length(list))
    IN [mem |-> concat_set(a.mem, a.view, list, 0), view |-> a.view]

\* BufferWriterPrototype.finish.  null.slice(0, pos) throws a TypeError.
finish_buffer(c, w0, clearForkedStates) ==
    LET bufs == w0.bufs
        buf == w0.buf
        pos == w0.pos
        w == reset_body(Call(w0), clearForkedStates)
        s == slice_call("Buffer.slice", w.mem, buf, 0, pos)
        all == IF pos # 0 THEN Append(bufs, s.view) ELSE bufs
        r == Buffer_concat(c, w.mem, all)
    IN IF Len(bufs) = 0
       THEN IF buf = Null THEN [w EXCEPT !.threw = TRUE]
            ELSE [w EXCEPT !.ret = s.view]
       ELSE [w EXCEPT !.mem = r.mem, !.ret = r.view]

\* the methods a writer of constructor c.ctor has
Bytes(c, w, value) ==
    IF c.ctor = "BufferWriter" THEN write_bytes_buffer(c, w, value)
    ELSE write_bytes(c, w, value)

Finish(c, w, clearForkedStates) ==
    IF c.ctor = "BufferWriter" THEN finish_buffer(c, w, clearForkedStates)
    ELSE finish(c, w, clearForkedStates)

(***************************************************************************)
(* The environments a writer runs in: its constructor, whether the         *)
(* platform's Uint8Array has slice, what unzeroed memory holds, and the    *)
(* module-wide chunk size Writer.BUFFER_SIZE (1024 unless the caller sets  *)
(* it; small sizes make a write fill the buffer exactly).                  *)
(***************************************************************************)
MaxBufferSize == 2

Platforms ==
    {[ctor |-> "Writer", typedSlice |-> TRUE, fill |-> 0],
     [ctor |-> "Writer", typedSlice |-> FALSE, fill |-> 0],
     [ctor |-> "BufferWriter", typedSlice |-> TRUE, fill |-> 0],
     [ctor |-> "BufferWriter", typedSlice |-> TRUE, fill |-> 255]}

Configs ==
    {[ctor |-> p.ctor, typedSlice |-> p.typedSlice, fill |-> p.fill, BUFFER_SIZE |-> k] :
        p \in Platforms, k \in 1..MaxBufferSize}

(***************************************************************************)
(* Calls.  A call is [op, arg]: arg holds the integer arguments, the bytes *)
(* of the array passed to bytes, or the clearForkedStates flag.            *)
(***************************************************************************)
Apply(c, w, call) ==
    CASE call.op = "tag" -> write_tag(c, w, Num(call.arg[1]), Num(call.arg[2]))
      [] call.op = "uint32" -> write_uint32(c, w, Num(call.arg[1]))
      [] call.op = "sint32" -> write_sint32(c, w, Num(call.arg[1]))
      [] call.op = "bool" -> write_bool(c, w, call.arg[1] = 1)
      [] call.op = "fixed32" -> write_fixed32(c, w, Num(call.arg[1]))
      [] call.op = "sfixed32" -> write_sfixed32(c, w, Num(call.arg[1]))
      [] call.op = "bytes" ->
            LET value == Put(w.mem, call.arg)
            IN Bytes(c, [w EXCEPT !.mem = value.mem], value.view)
      [] call.op = "fork" -> fork(c, w)
      [] call.op = "reset" -> reset(c, w, call.arg[1] = 1)
      [] call.op = "finish" -> Finish(c, w, call.arg[1] = 1)

\* what a finish call gave its caller: whether it threw, whether it returned
\* null, and the bytes of the array it returned
Outcome(w) ==
    [threw |-> w.threw, null |-> ~w.threw /\ w.ret = Null,
     bytes |-> IF w.threw \/ w.ret = Null THEN <<>> ELSE Contents(w.mem, w.ret)]

\* the current scope's content: the chunks in order, then buf[0:pos]
RECURSIVE ChunkBytes(_, _)
ChunkBytes(mem, bufs) ==
    IF bufs = <<>> THEN <<>> ELSE Contents(mem, bufs[1]) \o ChunkBytes(mem, Tail(bufs))

ScopeBytes(w) ==
    ChunkBytes(w.mem, w.bufs) \o
        (IF w.buf = Null THEN <<>> ELSE SubSeq(w.mem, w.buf[1] + 1, w.buf[1] + w.pos))

(***************************************************************************)
(* State.  ws: one writer per environment, all given the same calls.       *)
(* last, n: the last call made and the number of calls.  pc, script: where *)
(* a scripted caller is and what it recorded.  tw: per environment, the    *)
(* new Writer a reuse comparison runs beside the pooled one.               *)
(***************************************************************************)
VARIABLES ws, tw, last, n, pc, script

vars == <<ws, tw, last, n, pc, script>>

NoTwin == [live |-> FALSE, cmp |-> FALSE, out |-> Outcome(Writer), w |-> Writer]

NoCall == [op |-> "new", arg |-> <<>>]

(***************************************************************************)
(* Spec: any sequence of at most MaxCalls calls on writers just            *)
(* constructed.                                                            *)
(***************************************************************************)
MaxCalls == 4

Init ==
    /\ ws = [c \in Configs |-> Writer]
    /\ tw = <<>>
    /\ last = NoCall
    /\ n = 0
    /\ pc = "calls"
    /\ script = <<>>

\* the call is made on every writer
Made(call) ==
    /\ ws' = [c \in Configs |-> Apply(c, ws[c], call)]
    /\ last' = call
    /\ n' = n + 1

Do(call) ==
    /\ Made(call)
    /\ UNCHANGED <<tw, pc, script>>

Tag ==
    /\ n < MaxCalls
    /\ Do([op |-> "tag", arg |-> <<1, 2>>])

Uint32 ==
    /\ n < MaxCalls
    /\ Do([op |-> "uint32", arg |-> <<150>>])

Sint32 ==
    /\ n < MaxCalls
    /\ Do([op |-> "sint32", arg |-> <<-1>>])

Bool ==
    /\ n < MaxCalls
    /\ Do([op |-> "bool", arg |-> <<1>>])

Fixed32 ==
    /\ n < MaxCalls
    /\ Do([op |-> "fixed32", arg |-> <<1>>])

Sfixed32 ==
    /\ n < MaxCalls
    /\ Do([op |-> "sfixed32", arg |-> <<-2>>])

WriteBytes ==
    /\ n < MaxCalls
    /\ \E data \in {<<>>, <<170, 187>>} : Do([op |-> "bytes", arg |-> data])

Fork ==
    /\ n < MaxCalls
    /\ Do([op |-> "fork", arg |-> <<>>])

Reset ==
    /\ n < MaxCalls
    /\ \E clear \in {0, 1} : Do([op |-> "reset", arg |-> <<clear>>])

FinishCall ==
    /\ n < MaxCalls
    /\ \E clear \in {0, 1} : Do([op |-> "finish", arg |-> <<clear>>])

Next ==
    \/ Tag
    \/ Uint32
    \/ Sint32
    \/ Bool
    \/ Fixed32
    \/ Sfixed32
    \/ WriteBytes
    \/ Fork
    \/ Reset
    \/ FinishCall

Spec == Init /\ [][Next]_vars

(***************************************************************************)
(* Claims checked under Spec.                                              *)
(***************************************************************************)
\* a finish that returned exactly the bytes b
Returned(b) == [threw |-> FALSE, null |-> FALSE, bytes |-> b]

\* C3: every finish() raises no error and returns the current scope's content,
\* the sealed chunks in order followed by buf[0:pos]; an empty scope gives an
\* empty byte sequence, never null.
C3_FinishReturnsScope ==
    [][last'.op = "finish" =>
        \A c \in Configs : Outcome(ws'[c]) = Returned(ScopeBytes(ws[c]))]_vars

\* C4: after reset(true) or finish(true) at any fork depth the fork stack is
\* empty, the chunk list is empty and buf, pos and len are cleared.
C4_ClearAllFlattens ==
    (last.op \in {"reset", "finish"} /\ last.arg = <<1>>) =>
        \A c \in Configs :
            /\ ws[c].stack = <<>>
            /\ ws[c].bufs = <<>>
            /\ ws[c].buf = Null
            /\ ws[c].pos = 0
            /\ ws[c].len = 0

\* two environments that differ in Writer.BUFFER_SIZE only
SamePlatform(c, d) ==
    c.ctor = d.ctor /\ c.typedSlice = d.typedSlice /\ c.fill = d.fill

\* C6: the outcome of every finish() is the same for every Writer.BUFFER_SIZE.
C6_ChunkSizeIndependent ==
    last.op = "finish" =>
        \A c, d \in Configs : SamePlatform(c, d) => Outcome(ws[c]) = Outcome(ws[d])

\* C7: the typed-array Writer and the BufferWriter give the same outcome at
\* every finish().
C7_VariantsAgree ==
    last.op = "finish" =>
        \A c, d \in Configs :
            c.BUFFER_SIZE = d.BUFFER_SIZE => Outcome(ws[c]) = Outcome(ws[d])

(***************************************************************************)
(* The wire format the claims compare with (spec 4.2): the bytes each      *)
(* scalar call is to emit, for arguments that are small naturals.          *)
(***************************************************************************)
RECURSIVE RefVarint(_)
RefVarint(k) ==
    IF k < 128 THEN <<k>> ELSE <<(k % 128) + 128>> \o RefVarint(k \div 128)

RefCall(call) ==
    CASE call.op = "tag" -> <<(call.arg[1] * 8 + (call.arg[2] % 8)) % 256>>
      [] call.op = "uint32" -> RefVarint(call.arg[1])
      [] call.op = "bool" -> <<call.arg[1]>>
      [] call.op = "bytes" -> RefVarint(Len(call.arg)) \o call.arg

RECURSIVE RefCalls(_)
RefCalls(calls) ==
    IF calls = <<>> THEN <<>> ELSE RefCall(Head(calls)) \o RefCalls(Tail(calls))

\* the scalar calls a scripted caller chooses from
PartCalls ==
    {[op |-> "tag", arg |-> <<1, 2>>], [op |-> "uint32", arg |-> <<150>>],
     [op |-> "bool", arg |-> <<1>>], [op |-> "bytes", arg |-> <<170, 187>>]}

(***************************************************************************)
(* SpecFork: a caller that writes A (1..MaxPart scalar calls), forks,      *)
(* writes B (1..MaxPart scalar calls), and calls finish() twice.           *)
(***************************************************************************)
MaxPart == 2

InitFork ==
    /\ ws = [c \in Configs |-> Writer]
    /\ tw = <<>>
    /\ last = NoCall
    /\ n = 0
    /\ pc = "A"
    /\ script = [A |-> <<>>, B |-> <<>>, inner |-> <<>>]

ForkWriteA ==
    /\ pc = "A"
    /\ Len(script.A) < MaxPart
    /\ \E call \in PartCalls :
        /\ Made(call)
        /\ script' = [script EXCEPT !.A = Append(@, call)]
    /\ UNCHANGED <<tw, pc>>

ForkCall ==
    /\ pc = "A"
    /\ script.A # <<>>
    /\ Made([op |-> "fork", arg |-> <<>>])
    /\ pc' = "B"
    /\ UNCHANGED <<tw, script>>

ForkWriteB ==
    /\ pc = "B"
    /\ Len(script.B) < MaxPart
    /\ \E call \in PartCalls :
        /\ Made(call)
        /\ script' = [script EXCEPT !.B = Append(@, call)]
    /\ UNCHANGED <<tw, pc>>

ForkInnerFinish ==
    /\ pc = "B"
    /\ script.B # <<>>
    /\ Made([op |-> "finish", arg |-> <<0>>])
    /\ script' = [script EXCEPT !.inner = [c \in Configs |-> Outcome(ws'[c])]]
    /\ pc' = "outer"
    /\ UNCHANGED tw

ForkOuterFinish ==
    /\ pc = "outer"
    /\ Made([op |-> "finish", arg |-> <<0>>])
    /\ pc' = "done"
    /\ UNCHANGED <<tw, script>>

NextFork ==
    \/ ForkWriteA
    \/ ForkCall
    \/ ForkWriteB
    \/ ForkInnerFinish
    \/ ForkOuterFinish

SpecFork == InitFork /\ [][NextFork]_vars

\* C1: write A, fork(), write B, finish(), finish() on a new writer: the first
\* finish() returns exactly B's bytes and the second exactly A's bytes, without
\* error, for every chunk size.
C1_ForkIsolation ==
    pc = "done" =>
        \A c \in Configs :
            /\ script.inner[c] = Returned(RefCalls(script.B))
            /\ Outcome(ws[c]) = Returned(RefCalls(script.A))

(***************************************************************************)
(* SpecReuse: any sequence of at most MaxReuseCalls calls on a pooled      *)
(* writer.  When a finish or reset ends an encode (it is called in flat    *)
(* state, or with clearForkedStates), a new Writer is constructed beside   *)
(* the pooled one, and both are given the same calls from then on.         *)
(***************************************************************************)
MaxReuseCalls == 5

\* a finish or reset that ends an encode
EndsEncode(w, call) ==
    call.op \in {"reset", "finish"} /\ (Len(w.stack) = 0 \/ call.arg = <<1>>)

\* the new writer of environment c: given the call if it exists (cmp: the
\* outcome out is that of the same call as the pooled writer's), constructed
\* anew if the call ends an encode on the pooled writer
TwinStep(c, call) ==
    LET t == tw[c]
        applied == Apply(c, t.w, call)
    IN [live |-> t.live \/ EndsEncode(ws[c], call),
        cmp |-> t.live,
        out |-> IF t.live THEN Outcome(applied) ELSE Outcome(Writer),
        w |-> IF EndsEncode(ws[c], call) THEN Writer
              ELSE IF t.live THEN applied ELSE Writer]

InitReuse ==
    /\ ws = [c \in Configs |-> Writer]
    /\ tw = [c \in Configs |-> NoTwin]
    /\ last = NoCall
    /\ n = 0
    /\ pc = "calls"
    /\ script = <<>>

DoBoth(call) ==
    /\ Made(call)
    /\ tw' = [c \in Configs |-> TwinStep(c, call)]
    /\ UNCHANGED <<pc, script>>

ReuseWrite ==
    /\ n < MaxReuseCalls
    /\ \E call \in {[op |-> "tag", arg |-> <<1, 2>>], [op |-> "uint32", arg |-> <<150>>]} :
        DoBoth(call)

ReuseFork ==
    /\ n < MaxReuseCalls
    /\ DoBoth([op |-> "fork", arg |-> <<>>])

ReuseReset ==
    /\ n < MaxReuseCalls
    /\ \E clear \in {0, 1} : DoBoth([op |-> "reset", arg |-> <<clear>>])

ReuseFinish ==
    /\ n < MaxReuseCalls
    /\ \E clear \in {0, 1} : DoBoth([op |-> "finish", arg |-> <<clear>>])

NextReuse ==
    \/ ReuseWrite
    \/ ReuseFork
    \/ ReuseReset
    \/ ReuseFinish

SpecReuse == InitReuse /\ [][NextReuse]_vars

\* C5: after a finish() or reset() that ends an encode (in flat state, or with
\* clear_all at any fork depth), every later finish() returns what the same
\* calls return on a newly constructed Writer.
C5_ReusableAsNew ==
    last.op = "finish" =>
        \A c \in Configs : tw[c].cmp => Outcome(ws[c]) = tw[c].out

(***************************************************************************)
(* SpecTree: a caller that encodes a tree of submessages by the usage      *)
(* pattern of spec 4.3: for a submessage it calls fork(), writes the       *)
(* submessage's fields, calls finish(), and writes bytes(result) into the  *)
(* scope that is then current.  A call that throws ends the encode.        *)
(* A field is [sub, msg]: a scalar field (sub = FALSE), written by one     *)
(* tag call, or a submessage with the fields msg.                          *)
(***************************************************************************)
MaxFields == 2

MaxDepth == 2

Scalar == [sub |-> FALSE, msg |-> <<>>]

FieldCall == [op |-> "tag", arg |-> <<25, 0>>]

SeqsUpTo(S, k) == UNION {[1..j -> S] : j \in 0..k}

RECURSIVE Messages(_)
Messages(d) ==
    IF d = 0 THEN SeqsUpTo({Scalar}, MaxFields)
    ELSE SeqsUpTo({Scalar} \cup {[sub |-> TRUE, msg |-> m] : m \in Messages(d - 1)},
                  MaxFields)

RECURSIVE encode_fields(_, _, _)
RECURSIVE encode_submessage(_, _, _)
encode_fields(c, w, msg) ==
    IF msg = <<>> \/ w.threw THEN w
    ELSE encode_fields(c,
                       IF Head(msg).sub THEN encode_submessage(c, w, Head(msg).msg)
                       ELSE Apply(c, w, FieldCall),
                       Tail(msg))

\* writer.fork(); <fields>; result = writer.finish(); writer.bytes(result)
encode_submessage(c, w, msg) ==
    LET w1 == encode_fields(c, fork(c, w), msg)
        w2 == IF w1.threw THEN w1 ELSE Finish(c, w1, FALSE)
    IN IF w2.threw THEN w2 ELSE Bytes(c, w2, w2.ret)

\* the reference encoding: each submessage once, as its length varint followed
\* by its bytes, at its position inside its parent
RECURSIVE RefMessage(_)
RefMessage(msg) ==
    IF msg = <<>> THEN <<>>
    ELSE (IF Head(msg).sub
          THEN RefVarint(Len(RefMessage(Head(msg).msg))) \o RefMessage(Head(msg).msg)
          ELSE RefCall(FieldCall))
         \o RefMessage(Tail(msg))

InitTree ==
    /\ ws = [c \in Configs |-> Writer]
    /\ tw = <<>>
    /\ last = NoCall
    /\ n = 0
    /\ pc = "fields"
    /\ script = <<>>

\* the outermost scope gets the next field
TreeField(f) ==
    /\ ws' = [c \in Configs |-> encode_fields(c, ws[c], <<f>>)]
    /\ script' = Append(script, f)
    /\ last' = [op |-> IF f.sub THEN "submessage" ELSE FieldCall.op, arg |-> <<>>]
    /\ n' = n + 1
    /\ UNCHANGED <<tw, pc>>

TreeScalar ==
    /\ pc = "fields"
    /\ Len(script) < MaxFields
    /\ TreeField(Scalar)

TreeSubmessage ==
    /\ pc = "fields"
    /\ Len(script) < MaxFields
    /\ \E m \in Messages(MaxDepth - 1) : TreeField([sub |-> TRUE, msg |-> m])

TreeFinish ==
    /\ pc = "fields"
    /\ ws' = [c \in Configs |-> IF ws[c].threw THEN ws[c] ELSE Finish(c, ws[c], FALSE)]
    /\ last' = [op |-> "finish", arg |-> <<0>>]
    /\ n' = n + 1
    /\ pc' = "done"
    /\ UNCHANGED <<tw, script>>

NextTree ==
    \/ TreeScalar
    \/ TreeSubmessage
    \/ TreeFinish

SpecTree == InitTree /\ [][NextTree]_vars

\* C2: for every tree of submessages of bounded depth, the outermost finish()
\* of a caller following the usage pattern returns exactly the reference
\* encoding.
C2_NestedComposition ==
    pc = "done" =>
        \A c \in Configs : Outcome(ws[c]) = Returned(RefMessage(script))

(***************************************************************************)
(* SpecNum: the 32-bit scalar encoders as functions of their argument.     *)
(* Init draws a bit pattern v; a caller writes at most MaxPrefix bytes,    *)
(* then makes one encoder call with v read as the encoder's kind reads it  *)
(* (unsigned for uint32 and fixed32, two's complement for int32, sint32    *)
(* and sfixed32, its low bit for bool), then calls finish().               *)
(***************************************************************************)
MaxPrefix == 2

OneHot(k) == [i \in Bit |-> IF i = k THEN 1 ELSE 0]

LowOnes(k) == [i \in Bit |-> IF i < k THEN 1 ELSE 0]

\* 2^k, 2^k - 1, -2^k - 1 and -2^k for every k, and two mixed patterns
WordSamples ==
    LET base == {OneHot(k) : k \in Bit} \cup {LowOnes(k) : k \in 0..32}
    IN base \cup {Not32(w) : w \in base} \cup {BitsOf(150), BitsOf(1431655765)}

Signed == {"int32", "sint32", "sfixed32"}

\* the argument an encoder of kind op is called with for the pattern v
NumInput(op, v) ==
    IF op = "bool" THEN Num(v[0])
    ELSE IF op \in Signed THEN Int32Num(v) ELSE Uint32Num(v)

\* WriterPrototype.int32 = WriterPrototype.uint32
ApplyNum(c, w, op, v) ==
    CASE op = "uint32" -> write_uint32(c, w, NumInput(op, v))
      [] op = "int32" -> write_uint32(c, w, NumInput(op, v))
      [] op = "sint32" -> write_sint32(c, w, NumInput(op, v))
      [] op = "bool" -> write_bool(c, w, v[0] = 1)
      [] op = "fixed32" -> write_fixed32(c, w, NumInput(op, v))
      [] op = "sfixed32" -> write_sfixed32(c, w, NumInput(op, v))

InitNum ==
    /\ ws = [c \in Configs |-> Writer]
    /\ tw = <<>>
    /\ last = NoCall
    /\ n = 0
    /\ pc = "input"
    /\ \E v \in WordSamples : script = [v |-> v, pre |-> 0, op |-> "none"]

NumPrefix ==
    /\ pc = "input"
    /\ script.pre < MaxPrefix
    /\ Made([op |-> "bool", arg |-> <<1>>])
    /\ script' = [script EXCEPT !.pre = @ + 1]
    /\ UNCHANGED <<tw, pc>>

Encode(op) ==
    /\ ws' = [c \in Configs |-> ApplyNum(c, ws[c], op, script.v)]
    /\ last' = [op |-> op, arg |-> <<>>]
    /\ n' = n + 1
    /\ pc' = "written"
    /\ script' = [script EXCEPT !.op = op]
    /\ UNCHANGED tw

NumUint32 ==
    /\ pc = "input"
    /\ Encode("uint32")

NumInt32 ==
    /\ pc = "input"
    /\ Encode("int32")

NumSint32 ==
    /\ pc = "input"
    /\ Encode("sint32")

NumBool ==
    /\ pc = "input"
    /\ Encode("bool")

NumFixed32 ==
    /\ pc = "input"
    /\ Encode("fixed32")

NumSfixed32 ==
    /\ pc = "input"
    /\ Encode("sfixed32")

NumFinish ==
    /\ pc = "written"
    /\ Made([op |-> "finish", arg |-> <<0>>])
    /\ pc' = "done"
    /\ UNCHANGED <<tw, script>>

NextNum ==
    \/ NumPrefix
    \/ NumUint32
    \/ NumInt32
    \/ NumSint32
    \/ NumBool
    \/ NumFixed32
    \/ NumSfixed32
    \/ NumFinish

SpecNum == InitNum /\ [][NextNum]_vars

(***************************************************************************)
(* A reader conforming to the Protocol-Buffers wire format.                *)
(***************************************************************************)
ByteBit(b, j) == (b \div (2 ^ j)) % 2

\* a varint: the continuation bit on every byte but the last
WellFormedVarint(bytes) ==
    /\ Len(bytes) >= 1
    /\ \A k \in 1..Len(bytes) : (bytes[k] >= 128) <=> (k < Len(bytes))

\* the low 32 bits of the varint's value
ReadVarint32(bytes) ==
    [i \in Bit |-> IF (i \div 7) + 1 <= Len(bytes)
                   THEN ByteBit(bytes[(i \div 7) + 1], i % 7) ELSE 0]

ReadFixed32(bytes) == [i \in Bit |-> ByteBit(bytes[(i \div 8) + 1], i % 8)]

\* (u >>> 1) ^ -(u & 1)
Unzigzag(u) == Xor(Shr(u, 1), Neg32(And(u, BitsOf(1))))

Zero32 == [i \in Bit |-> 0]

\* the bytes are one value of the kind and nothing else
Readable(op, bytes) ==
    IF op \in {"fixed32", "sfixed32"} THEN Len(bytes) = 4 ELSE WellFormedVarint(bytes)

\* the value a conforming reader of the kind reads
Decode(op, bytes) ==
    CASE op = "uint32" -> Uint32Num(ReadVarint32(bytes))
      [] op = "int32" -> Int32Num(ReadVarint32(bytes))
      [] op = "sint32" -> Int32Num(Unzigzag(ReadVarint32(bytes)))
      [] op = "bool" -> Num(IF ReadVarint32(bytes) = Zero32 THEN 0 ELSE 1)
      [] op = "fixed32" -> Uint32Num(ReadFixed32(bytes))
      [] op = "sfixed32" -> Int32Num(ReadFixed32(bytes))

\* C8: for every value v of each 32-bit scalar kind, the bytes the encoder
\* followed by finish() returns are read back as v by a conforming reader.
C8_RoundTrip ==
    (pc = "done" /\ script.pre = 0) =>
        \A c \in Configs :
            /\ ~Outcome(ws[c]).threw
            /\ ~Outcome(ws[c]).null
            /\ Readable(script.op, Outcome(ws[c]).bytes)
            /\ Decode(script.op, Outcome(ws[c]).bytes) = NumInput(script.op, script.v)

\* u < 2^k for an unsigned word u: no bit at or above k is set
Below(u, k) == \A i \in k..31 : u[i] = 0

\* the documented byte count: thresholds 128 = 2^7, 16384 = 2^14,
\* 2097152 = 2^21, 268435456 = 2^28
VarintLen(u) ==
    IF Below(u, 7) THEN 1
    ELSE IF Below(u, 14) THEN 2
    ELSE IF Below(u, 21) THEN 3
    ELSE IF Below(u, 28) THEN 4
    ELSE 5

Min(a, b) == IF a <= b THEN a ELSE b

\* the base-128 little-end-first varint of u: 7 bits a byte, 0x80 on all but the last
VarintBytes(u) ==
    [j \in 1..VarintLen(u) |->
        Field(u, 7 * (j - 1), Min(7 * j - 1, 31)) + (IF j < VarintLen(u) THEN 128 ELSE 0)]

\* what uint32(u) does to writer w, giving w2, in environment c
VarintWritten(c, w, w2, u) ==
    LET len == VarintLen(u)
        grows == w.pos + len > w.len
        base == IF grows THEN 0 ELSE w.pos
    IN /\ ~w2.threw
       /\ w2.len = (IF grows THEN Max(len, c.BUFFER_SIZE) ELSE w.len)
       /\ w2.pos = base + len
       /\ w2.pos <= w2.len
       /\ w2.buf # Null
       /\ w2.buf[2] = w2.len
       /\ SubSeq(w2.mem, w2.buf[1] + base + 1, w2.buf[1] + base + len) = VarintBytes(u)
       /\ ScopeBytes(w2) = ScopeBytes(w) \o VarintBytes(u)

\* C9: uint32(v) asks for exactly n bytes of capacity (a buffer it has to grow
\* for gets max(n, BUFFER_SIZE) bytes), writes exactly n bytes from the position
\* the capacity check leaves and advances the position by n, with n = 1 for
\* v < 128, 2 for v < 16384, 3 for v < 2097152, 4 for v < 268435456 and 5
\* otherwise; the bytes are the base-128 varint of v and the position never
\* passes the capacity.
C9_VarintLengthLaw ==
    [][(pc = "input" /\ pc' = "written" /\ script'.op = "uint32") =>
        \A c \in Configs : VarintWritten(c, ws[c], ws'[c], script.v)]_vars

AllOnes == [i \in Bit |-> 1]

\* uint32(4294967295) after one byte: five bytes, in a buffer grown for them
C9_Witness ==
    /\ pc = "written"
    /\ script.op = "uint32"
    /\ script.v = AllOnes
    /\ script.pre = 1
    /\ \A c \in Configs :
        /\ ws[c].pos = 5
        /\ ws[c].len = 5
        /\ Len(ws[c].bufs) = 1
        /\ ScopeBytes(ws[c]) = <<1, 255, 255, 255, 255, 15>>

\* zigzag as a map on bit patterns: its value modulo 2^32
Zigzag32(v) == ToUint32(zigzag(Int32Num(v)))

\* C10: zigzag, taken modulo 2^32, is a bijection on the 32-bit integers with
\* unzigzag(zigzag(v)) = v; zigzag(-1) = 1, zigzag(0) = 0, zigzag(1) = 2;
\* sint32(v) writes the varint of zigzag(v), and sint32(-1) followed by finish()
\* returns the single byte 0x01.
C10_ZigzagLaw ==
    /\ (pc = "written" /\ script.op = "sint32") =>
        /\ Unzigzag(Zigzag32(script.v)) = script.v
        /\ Zigzag32(Unzigzag(script.v)) = script.v
        /\ zigzag(Num(-1)) = Num(1)
        /\ zigzag(Num(0)) = Num(0)
        /\ zigzag(Num(1)) = Num(2)
        /\ script.pre = 0 =>
            \A s \in WordSamples : Zigzag32(s) = Zigzag32(script.v) => s = script.v
        /\ \A c \in Configs :
            ScopeBytes(ws[c]) = Fill(script.pre, 1) \o VarintBytes(Zigzag32(script.v))
    /\ (pc = "done" /\ script.op = "sint32" /\ script.pre = 0 /\ script.v = AllOnes) =>
        \A c \in Configs : Outcome(ws[c]) = Returned(<<1>>)

\* sint32(-1); finish() has returned [0x01]
C10_Witness ==
    /\ pc = "done"
    /\ script.op = "sint32"
    /\ script.pre = 0
    /\ Int32Num(script.v) = Num(-1)
    /\ \A c \in Configs : Outcome(ws[c]) = Returned(<<1>>)

(***************************************************************************)
(* SpecScope: at most MaxScopeCalls calls out of scalar writes, fork(),    *)
(* reset() and finish() (clearForkedStates absent), with a record of what  *)
(* the calls mean: cur, the bytes written into the scope that is open;     *)
(* outer, the contents of the scopes waiting below it, one per fork() not  *)
(* yet closed; fk, the writers as they were before the last fork() and     *)
(* whether only scalar writes followed it ("open") and one reset() or      *)
(* finish() then closed it ("closed"); rets, per environment, every array  *)
(* a finish() returned with the bytes it held then.                        *)
(***************************************************************************)
MaxScopeCalls == 6

ScopeCalls ==
    {[op |-> "tag", arg |-> <<1, 2>>], [op |-> "bytes", arg |-> <<170, 187>>]}

NoFork == [st |-> "none", before |-> <<>>, inner |-> 0]

InitScope ==
    /\ ws = [c \in Configs |-> Writer]
    /\ tw = <<>>
    /\ last = NoCall
    /\ n = 0
    /\ pc = "calls"
    /\ script = [cur |-> <<>>, outer |-> <<>>, fk |-> NoFork,
                 rets |-> [c \in Configs |-> <<>>]]

ScopeWrite ==
    /\ n < MaxScopeCalls
    /\ \E call \in ScopeCalls :
        /\ Made(call)
        /\ script' = [script EXCEPT
                !.cur = @ \o RefCall(call),
                !.fk = IF @.st = "open" THEN [@ EXCEPT !.inner = @ + 1] ELSE NoFork]
    /\ UNCHANGED <<tw, pc>>

ScopeFork ==
    /\ n < MaxScopeCalls
    /\ Made([op |-> "fork", arg |-> <<>>])
    /\ script' = [script EXCEPT
            !.cur = <<>>,
            !.outer = Append(@, script.cur),
            !.fk = [st |-> "open", before |-> ws, inner |-> 0]]
    /\ UNCHANGED <<tw, pc>>

\* the scope a reset() or finish() returns to, and the scopes left below it
Popped(s) ==
    IF s.outer = <<>> THEN [cur |-> <<>>, outer |-> <<>>]
    ELSE [cur |-> s.outer[Len(s.outer)], outer |-> SubSeq(s.outer, 1, Len(s.outer) - 1)]

Closed(fk) == IF fk.st = "open" THEN [fk EXCEPT !.st = "closed"] ELSE NoFork

ScopeReset ==
    /\ n < MaxScopeCalls
    /\ Made([op |-> "reset", arg |-> <<0>>])
    /\ script' = [script EXCEPT
            !.cur = Popped(script).cur,
            !.outer = Popped(script).outer,
            !.fk = Closed(@)]
    /\ UNCHANGED <<tw, pc>>

\* the arrays returned so far, with this call's if it returned one
Results(c, w, rets) ==
    IF w.threw \/ w.ret = Null THEN rets
    ELSE Append(rets, [view |-> w.ret, bytes |-> Contents(w.mem, w.ret)])

ScopeFinish ==
    /\ n < MaxScopeCalls
    /\ Made([op |-> "finish", arg |-> <<0>>])
    /\ script' = [script EXCEPT
            !.cur = Popped(script).cur,
            !.outer = Popped(script).outer,
            !.fk = Closed(@),
            !.rets = [c \in Configs |-> Results(c, ws'[c], @[c])]]
    /\ UNCHANGED <<tw, pc>>

NextScope ==
    \/ ScopeWrite
    \/ ScopeFork
    \/ ScopeReset
    \/ ScopeFinish

SpecScope == InitScope /\ [][NextScope]_vars

\* C11: the fork stack is as long as the number of fork() calls not yet matched
\* by a finish() or reset(): every fork() adds one level, whatever buf and pos
\* are, and every finish() or reset() at depth d >= 1 leaves depth d - 1.
C11_ForkDepth ==
    \A c \in Configs : Len(ws[c].stack) = Len(script.outer)

\* C12: in every reachable state the chunk list in order followed by
\* buf[0:pos] is exactly the bytes written, in write order, into the scope
\* that is open.
C12_ScopeContent ==
    \A c \in Configs : ScopeBytes(ws[c]) = script.cur

\* the content of every level of the fork stack
StackBytes(w) == [i \in 1..Len(w.stack) |-> ChunkBytes(w.mem, w.stack[i])]

\* C13: if fork() is called with pos > 0 when the scope holds S, then after
\* scalar writes in the inner scope and one reset() or finish(), the scope's
\* content is exactly S and the fork stack is as it was before the fork().
C13_OuterPreserved ==
    script.fk.st = "closed" =>
        \A c \in Configs :
            script.fk.before[c].pos > 0 =>
                /\ ScopeBytes(ws[c]) = ScopeBytes(script.fk.before[c])
                /\ ws[c].stack = script.fk.before[c].stack
                /\ StackBytes(ws[c]) = StackBytes(script.fk.before[c])

\* tag; fork(); writes; finish(): the outer scope again holds the tag byte
C13_Witness ==
    /\ script.fk.st = "closed"
    /\ script.fk.inner > 0
    /\ last.op = "finish"
    /\ \A c \in Configs :
        /\ script.fk.before[c].pos > 0
        /\ ScopeBytes(script.fk.before[c]) = <<10>>
        /\ ScopeBytes(ws[c]) = <<10>>

(***************************************************************************)
(* Claims about the buffer, the chunks and the cursor, checked under Spec. *)
(***************************************************************************)
Encoders == {"tag", "uint32", "sint32", "bool", "fixed32", "sfixed32", "bytes"}

\* C14: in every reachable state 0 <= pos <= len, len is the length of buf,
\* pos and len are 0 when buf is null, and no encoder stores into a null
\* buffer or at an index >= len.
C14_CursorInvariant ==
    \A c \in Configs :
        /\ 0 <= ws[c].pos
        /\ ws[c].pos <= ws[c].len
        /\ ws[c].buf = Null => (ws[c].pos = 0 /\ ws[c].len = 0)
        /\ ws[c].buf # Null => ws[c].len = ws[c].buf[2]
        /\ last.op \in Encoders => ~ws[c].threw

\* a write has filled the buffer of a forked scope to its last byte
C14_Witness ==
    /\ last.op \in Encoders
    /\ \A c \in Configs :
        /\ ws[c].buf # Null
        /\ ws[c].pos = ws[c].len
        /\ Len(ws[c].stack) = 1
    /\ \E c \in Configs : ws[c].buf[1] > 0 /\ ws[c].mem[ws[c].buf[1]] = 10

\* the number of bytes a scalar call with one capacity check emits
WriteLength(call) ==
    CASE call.op \in {"tag", "bool"} -> 1
      [] call.op = "uint32" -> VarintLen(ToUint32(Num(call.arg[1])))
      [] call.op = "sint32" -> VarintLen(Zigzag32(ToUint32(Num(call.arg[1]))))
      [] call.op \in {"fixed32", "sfixed32"} -> 4

\* what a scalar write of k bytes does to the buffer of writer w, giving w2
Grown(c, w, w2, k) ==
    IF w.pos + k <= w.len
    THEN /\ w2.buf = w.buf
         /\ w2.len = w.len
         /\ w2.bufs = w.bufs
         /\ w2.stack = w.stack
         /\ Len(w2.mem) = Len(w.mem)
    ELSE /\ w2.buf # Null
         /\ w2.buf[1] >= Len(w.mem)
         /\ w2.buf[2] = Max(k, c.BUFFER_SIZE)
         /\ w2.len = Max(k, c.BUFFER_SIZE)
         /\ w2.pos = k
         /\ w2.stack = w.stack
         /\ StackBytes(w2) = StackBytes(w)
         /\ SubSeq(w2.bufs, 1, Len(w.bufs)) = w.bufs
         /\ ChunkBytes(w2.mem, w.bufs) = ChunkBytes(w.mem, w.bufs)
         /\ IF w.pos > 0
            THEN /\ Len(w2.bufs) = Len(w.bufs) + 1
                 /\ Contents(w2.mem, w2.bufs[Len(w2.bufs)]) =
                        SubSeq(w.mem, w.buf[1] + 1, w.buf[1] + w.pos)
            ELSE Len(w2.bufs) = Len(w.bufs)

\* C15: a scalar write of k bytes grows the buffer only when pos + k > len;
\* the buffer is then a new one of max(k, BUFFER_SIZE) bytes written from
\* position 0, the written prefix [0:pos) has become the last chunk if and
\* only if pos was > 0, and the fork stack and the earlier chunks are as
\* they were.
C15_BufferGrowth ==
    [][last'.op \in (Encoders \ {"bytes"}) =>
        \A c \in Configs : Grown(c, ws[c], ws'[c], WriteLength(last'))]_vars

\* tag; fixed32: the tag byte is sealed and four bytes fill a new buffer
C15_Witness ==
    /\ last.op = "fixed32"
    /\ \A c \in Configs :
        /\ ws[c].len = 4
        /\ ws[c].pos = 4
        /\ Len(ws[c].bufs) = 1
        /\ ChunkBytes(ws[c].mem, ws[c].bufs) = <<10>>

\* what fork() does to a writer w with a buffer and pos > 0, giving w2
Forked(c, w, w2) ==
    LET top == w2.stack[Len(w2.stack)]
    IN /\ Len(w2.stack) = Len(w.stack) + 1
       /\ SubSeq(w2.stack, 1, Len(w.stack)) = w.stack
       /\ Len(top) = Len(w.bufs) + 1
       /\ SubSeq(top, 1, Len(w.bufs)) = w.bufs
       /\ Contents(w2.mem, top[Len(top)]) = SubSeq(w.mem, w.buf[1] + 1, w.buf[1] + w.pos)
       /\ w2.bufs = <<>>
       /\ w2.pos = 0
       /\ IF w.pos < w.len
          THEN /\ w2.buf = <<w.buf[1] + w.pos, w.len - w.pos>>
               /\ w2.len = w.len - w.pos
               /\ Len(w2.mem) = Len(w.mem)
          ELSE /\ w2.buf = Null
               /\ w2.len = 0

\* C16: fork() with a buffer and pos = p > 0 appends [0:p) as the last chunk
\* of the outer chunk list, pushes that list, and starts the inner scope with
\* no chunks at position 0; if p < len the inner buffer is the unwritten
\* remainder of the same buffer, len - p bytes, and nothing is allocated; if
\* p = len the inner scope has no buffer and len = 0.
C16_ForkReuse ==
    [][last'.op = "fork" =>
        \A c \in Configs :
            (ws[c].buf # Null /\ ws[c].pos > 0) => Forked(c, ws[c], ws'[c])]_vars

\* the elements of a sequence
Range(s) == {s[i] : i \in 1..Len(s)}

\* every chunk the writer holds: in its chunk list and in the lists on its stack
Chunks(w) == Range(w.bufs) \cup UNION {Range(w.stack[i]) : i \in 1..Len(w.stack)}

\* two buffers have a byte of storage in common
Overlap(u, v) ==
    /\ u[2] > 0
    /\ v[2] > 0
    /\ u[1] < v[1] + v[2]
    /\ v[1] < u[1] + u[2]

\* C17: no call changes a byte of a chunk sealed by expand or fork(), also
\* when the chunk is a view of the buffer's storage, and no chunk shares a
\* byte of storage with the active buffer.
C17_ChunksImmutable ==
    [][\A c \in Configs :
        /\ \A ch \in Chunks(ws[c]) :
            Contents(ws'[c].mem, ch) = Contents(ws[c].mem, ch)
        /\ ws'[c].buf # Null =>
            \A ch \in Chunks(ws'[c]) : ~Overlap(ch, ws'[c].buf)]_vars

\* a write went into the remainder fork() kept, right behind the chunk that
\* is a view of the same storage
C17_Witness ==
    /\ last.op \in Encoders
    /\ \E c \in Configs :
        /\ slice_method(c) # "slice"
        /\ Len(ws[c].stack) = 1
        /\ ws[c].buf # Null
        /\ ws[c].pos > 0
        /\ ws[c].len < c.BUFFER_SIZE
        /\ \E ch \in Range(ws[c].stack[1]) : ch[2] > 0 /\ ch[1] + ch[2] = ws[c].buf[1]

(***************************************************************************)
(* The fixed-width encoders, checked under SpecNum.                        *)
(***************************************************************************)
\* ((v << 1) xor (v >> 31)) mod 2^32, bit by bit
ZigzagBits(v) == [i \in Bit |-> ((IF i = 0 THEN 0 ELSE v[i - 1]) + v[31]) % 2]

\* the four bytes of a 32-bit value, least significant first
LittleEndian(u) == [j \in 1..4 |-> Field(u, 8 * (j - 1), 8 * j - 1)]

\* C18: sfixed32(v) writes exactly the 4 little-endian bytes of
\* ((v << 1) xor (v >> 31)) mod 2^32, the bytes fixed32 writes for that value;
\* fixed32(v) writes the 4 little-endian bytes of v mod 2^32, and fixed32(1)
\* followed by finish() returns [1, 0, 0, 0].
C18_Sfixed32Encoding ==
    /\ (pc = "written" /\ script.op = "sfixed32") =>
        \A c \in Configs :
            /\ ScopeBytes(ws[c]) =
                   Fill(script.pre, 1) \o LittleEndian(ZigzagBits(script.v))
            /\ script.pre = 0 =>
                   ScopeBytes(ws[c]) =
                       ScopeBytes(write_fixed32(c, Writer, Uint32Num(ZigzagBits(script.v))))
    /\ (pc = "written" /\ script.op = "fixed32") =>
        \A c \in Configs :
            ScopeBytes(ws[c]) = Fill(script.pre, 1) \o LittleEndian(script.v)
    /\ (pc = "done" /\ script.op = "fixed32" /\ script.pre = 0 /\ script.v = BitsOf(1)) =>
        \A c \in Configs : Outcome(ws[c]) = Returned(<<1, 0, 0, 0>>)

\* sfixed32(-1) has written 01 00 00 00
C18_Witness ==
    /\ pc = "written"
    /\ script.op = "sfixed32"
    /\ script.pre = 0
    /\ Int32Num(script.v) = Num(-1)
    /\ \A c \in Configs : ScopeBytes(ws[c]) = <<1, 0, 0, 0>>

(***************************************************************************)
(* The arrays finish() hands out, checked under SpecScope.                 *)
(***************************************************************************)
\* C19: the bytes a finish() returned are never changed by a later call on
\* the writer, also when the array is a view of the former buffer; after a
\* finish() the writer has no buffer, and no buffer it gets later shares
\* storage with a returned array.
C19_ResultOwnership ==
    \A c \in Configs :
        /\ last.op = "finish" => ws[c].buf = Null
        /\ \A i \in 1..Len(script.rets[c]) :
            /\ Contents(ws[c].mem, script.rets[c][i].view) = script.rets[c][i].bytes
            /\ ws[c].buf # Null => ~Overlap(script.rets[c][i].view, ws[c].buf)

\* tag; finish(); tag: the first array still holds the tag byte; where the
\* buffer is cut without copying it is the front of the two-byte buffer the
\* writer gave up, and the next buffer starts right behind that one
C19_Witness ==
    /\ last.op \in Encoders
    /\ \A c \in Configs :
        /\ Len(script.rets[c]) >= 1
        /\ script.rets[c][1].bytes = <<10>>
        /\ ws[c].buf # Null
        /\ ws[c].pos > 0
    /\ \E c \in Configs :
        /\ c.BUFFER_SIZE = 2
        /\ script.rets[c][1].view = <<0, 1>>
        /\ ws[c].buf[1] = 2

=============================================================================
